---- MODULE Spec2Model ----
(***************************************************************************)
(* Verification model of CV-IP/MutualGuide:                                *)
(*   - the evaluation loop of main.py (score threshold, per-class NMS,     *)
(*     per-image cap, progress report, evaluate_detections),               *)
(*   - the greedy NMS it calls (utils.box.nms),                            *)
(*   - Detector.__init__ / multibox / Detector.forward (models/detector),  *)
(*   - REPVGGBackbone construction and forward (models/repvgg_backbone).   *)
(*                                                                         *)
(* Scores are integers: one unit stands for 0.005, so the score threshold  *)
(* 0.005 of main.py is the integer 1 and "score > thresh" keeps its exact  *)
(* meaning.  Boxes are integer pixel boxes <<x1, y1, x2, y2>>; a detection *)
(* row of c_dets is <<x1, y1, x2, y2, score>>.  A threshold on IoU is a    *)
(* rational <<num, den>>.                                                  *)
(***************************************************************************)
EXTENDS Integers, Sequences, FiniteSets, TLC

(***************************************************************************)
(* Bounds of the model.                                                    *)
(***************************************************************************)
NumAnchors == 2      \* anchors (rows of boxes / scores) per image
num_classes == 3     \* len(VOC_CLASSES) of the run, background included
max_per_image == 2   \* the cap of main.py (300 there), scaled to the model
MaxImages == 11      \* len(testset) ranges over 0..MaxImages
MaxCand == 3         \* candidates handed to nms in the NMS specification

(***************************************************************************)
(* Program constants.                                                      *)
(***************************************************************************)
thresh == 1          \* main.py: thresh=0.005, in score units of 0.005

\* the scores of the model: below the threshold, at it, and two levels above it
AllLevels == 0..(thresh + 2)
\* the scores of the images whose every score matrix is explored
ScoreLevels == thresh..(thresh + 2)

VARIABLES
    \* ---- evaluation loop of main.py ----
    testset,        \* the test images: what model(x) + detector.forward give for each
    nms_thresh,     \* args.nms_thresh as <<num, den>>
    num_images,     \* len(testset)
    i,              \* image index of the for loop
    j,              \* class index of the inner for loop
    pc,             \* position in the evaluation code
    boxes,          \* boxes of the current image (after boxes *= scale)
    scores,         \* scores of the current image, scores[a][c] is column c-1 of anchor a
    all_boxes,      \* all_boxes[j][i]
    image_scores,   \* image_scores of the cap step
    image_thresh,   \* image_thresh of the cap step, -1 while unassigned
    nms_calls,      \* the calls of nms made so far: <<j, i, c_dets>>
    processed,      \* the image indices pulled so far, in order
    evaluated,      \* number of calls of testset.evaluate_detections
    error,          \* the exception that ended the run, "" if none
    \* ---- nms applied to a candidate list, and again to what it kept ----
    cand,           \* the candidate rows c_dets
    iou_thresh,     \* the thresh argument of nms as <<num, den>>
    nms_pc,         \* "start", "once", "twice"
    out1,           \* c_dets[keep, :] of the first call
    out2,           \* the same of the second call, made on out1
    \* ---- Detector(size, num_classes, backbone, neck) and Detector.forward ----
    size,           \* argument size
    arg_num_classes,\* argument num_classes (background included)
    backbone,       \* argument backbone
    neck,           \* argument neck
    det_pc,         \* position in Detector.__init__ / forward
    fpn_level,      \* self.fpn_level, 0 while unassigned
    self_num_classes, \* self.num_classes
    num_anchors,    \* self.num_anchors, 0 while unassigned
    channels,       \* channels of the backbone branch taken
    fea_channel,    \* fea_channel of the backbone branch taken
    built,          \* the network modules constructed so far, in order
    loc,            \* self.loc: one record [in, out] per Conv2d
    conf,           \* self.conf
    det_error,      \* the exception raised, "" if none
    batch,          \* N of the forward call
    fea,            \* the feature maps self.neck returned: <<h, w>> per level
    loc_shape,      \* shape of the first tensor forward returned
    conf_shape,     \* shape of the second
    \* ---- REPVGGBackbone() and REPVGGBackbone.forward ----
    side,           \* S: the input of forward is (3, S, S)
    bb_pc,          \* position in REPVGGBackbone.__init__ / forward
    in_planes,      \* self.in_planes
    cur_layer_idx,  \* self.cur_layer_idx
    stages,         \* stage0..stage4: the RepVGGBlocks of each, [in, out, stride]
    x,              \* the tensor flowing through forward: <<C, H, W>>
    bb_out1,        \* out1 of forward
    bb_out2,        \* out2 of forward
    bb_error,       \* the exception raised, "" if none
    \* ---- main.py from load_dataset to the start of the evaluation ----
    trained_model,  \* TRUE when args.trained_model is given
    dataset_len,    \* len(dataset)
    batch_size,     \* args.batch_size
    warm_iter,      \* args.warm_iter
    epoch_size,     \* epoch_size of load_dataset
    max_iter,       \* max_iter of load_dataset
    run_pc,         \* position in the code of __main__
    iteration,      \* iteration of the training loop
    epoch,          \* epoch
    batches_left,   \* batches batch_iterator can still give, -1 while there is none
    drawn,          \* batches drawn from the current batch_iterator
    created_at,     \* the iterations at which a batch_iterator was created, in order
    log,            \* the phase steps executed so far, in order
    iterations_done,\* training iterations run to their end
    train_error     \* the exception that ended the run, "" if none

evalVars == <<testset, nms_thresh, num_images, i, j, pc, boxes, scores, all_boxes,
              image_scores, image_thresh, nms_calls, processed, evaluated, error>>
nmsVars == <<cand, iou_thresh, nms_pc, out1, out2>>
detVars == <<size, arg_num_classes, backbone, neck, det_pc, fpn_level, self_num_classes,
             num_anchors, channels, fea_channel, built, loc, conf, det_error,
             batch, fea, loc_shape, conf_shape>>

bbVars == <<side, bb_pc, in_planes, cur_layer_idx, stages, x, bb_out1, bb_out2, bb_error>>

trainVars == <<trained_model, dataset_len, batch_size, warm_iter, epoch_size, max_iter,
               run_pc, iteration, epoch, batches_left, drawn, created_at, log,
               iterations_done, train_error>>

vars == <<evalVars, nmsVars, detVars, bbVars, trainVars>>

(***************************************************************************)
(* Sequence helpers.                                                       *)
(***************************************************************************)
RECURSIVE SumSeq(_)
SumSeq(s) == IF s = <<>> THEN 0 ELSE Head(s) + SumSeq(Tail(s))

RECURSIVE Flatten(_)
Flatten(ss) == IF ss = <<>> THEN <<>> ELSE Head(ss) \o Flatten(Tail(ss))

\* s[idx, :] of numpy: the rows of s at the positions listed in idx
Take(s, idx) == [k \in 1..Len(idx) |-> s[idx[k]]]

\* np.where(mask)[0]: the positions of the boolean array mask that hold, ascending
RECURSIVE WhereFrom(_, _)
WhereFrom(mask, k) ==
    IF k > Len(mask) THEN <<>>
    ELSE (IF mask[k] THEN <<k>> ELSE <<>>) \o WhereFrom(mask, k + 1)

Where(mask) == WhereFrom(mask, 1)

\* np.sort: ascending
RECURSIVE SortAsc(_)
SortAsc(s) ==
    IF s = <<>> THEN <<>>
    ELSE LET m == CHOOSE k \in 1..Len(s) : \A l \in 1..Len(s) : s[k] <= s[l]
             rest == [l \in 1..(Len(s) - 1) |-> IF l < m THEN s[l] ELSE s[l + 1]]
         IN  <<s[m]>> \o SortAsc(rest)

Score(det) == det[5]

(***************************************************************************)
(* utils.box.nms: greedy non-maximum suppression.                          *)
(***************************************************************************)
Max2(a, b) == IF a >= b THEN a ELSE b
Min2(a, b) == IF a <= b THEN a ELSE b

Area(b) == (b[3] - b[1]) * (b[4] - b[2])

Inter(a, b) ==
    LET w == Min2(a[3], b[3]) - Max2(a[1], b[1])
        h == Min2(a[4], b[4]) - Max2(a[2], b[2])
    IN  IF w > 0 /\ h > 0 THEN w * h ELSE 0

\* IoU(a, b) >= num/den, in integers
IoUAtLeast(a, b, th) ==
    Inter(a, b) * th[2] >= th[1] * (Area(a) + Area(b) - Inter(a, b))

\* descending score, ties by original index (stable sort)
RECURSIVE SortIdx(_, _)
SortIdx(d, rem) ==
    IF rem = {} THEN <<>>
    ELSE LET top == CHOOSE a \in rem : \A b \in rem :
                        \/ Score(d[a]) > Score(d[b])
                        \/ Score(d[a]) = Score(d[b]) /\ a <= b
         IN  <<top>> \o SortIdx(d, rem \ {top})

\* a suppression that stops at the first remaining box the top box leaves alone
SurvivorsUntilMiss(d, top, rest, th) ==
    IF rest # <<>> /\ IoUAtLeast(d[top], d[Head(rest)], th) THEN Tail(rest) ELSE rest

\* the boxes of the remaining list that the top box leaves alone
Survivors(d, top, rest, th) ==
    SelectSeq(rest, LAMBDA k : ~IoUAtLeast(d[top], d[k], th))

RECURSIVE Greedy(_, _, _)
Greedy(d, order, th) ==
    IF order = <<>> THEN <<>>
    ELSE <<Head(order)>> \o Greedy(d, Survivors(d, Head(order), Tail(order), th), th)

nms(c_dets, th) == Greedy(c_dets, SortIdx(c_dets, DOMAIN c_dets), th)

(***************************************************************************)
(* main.py, evaluation: one class of one image (lines 209-219).            *)
(***************************************************************************)
\* a threshold test that lets a score equal to thresh through
IndsNotStrict(sc, cls) == Where([a \in 1..Len(sc) |-> sc[a][cls] >= thresh])

\* inds = np.where(scores[:, j - 1] > thresh)[0]
Inds(sc, cls) == Where([a \in 1..Len(sc) |-> sc[a][cls] > thresh])

\* c_dets = np.hstack((boxes[inds], scores[inds, j - 1][:, np.newaxis]))
CDets(bx, sc, cls) ==
    LET inds == Inds(sc, cls)
    IN  [k \in 1..Len(inds) |-> bx[inds[k]] \o <<sc[inds[k]][cls]>>]

\* the Python list [] of the initial all_boxes, and numpy arrays of rows
EmptyList == [ndarray |-> FALSE, rows |-> <<>>]
Array(rows) == [ndarray |-> TRUE, rows |-> rows]

(***************************************************************************)
(* main.py, evaluation: the per-image cap (lines 220-226).                 *)
(***************************************************************************)
\* np.hstack([all_boxes[j][i][:, -1] for j in range(1, num_classes)])
ImageScores(ab, img) ==
    Flatten([c \in 1..(num_classes - 1) |->
                [k \in 1..Len(ab[c][img].rows) |-> Score(ab[c][img].rows[k])]])

\* np.sort(image_scores)[-max_per_image]
ImageThresh(is) == SortAsc(is)[Len(is) - max_per_image + 1]

\* a cap that also drops the rows whose score equals image_thresh
CapKeepAbove(rows, t) == Take(rows, Where([k \in 1..Len(rows) |-> Score(rows[k]) > t]))

\* keep = np.where(all_boxes[j][i][:, -1] >= image_thresh)[0]; all_boxes[j][i][keep, :]
CapKeep(rows, t) == Take(rows, Where([k \in 1..Len(rows) |-> Score(rows[k]) >= t]))

Capped(ab, img) ==
    LET is == ImageScores(ab, img)
    IN  IF max_per_image > 0 /\ Len(is) > max_per_image
        THEN [c \in DOMAIN ab |->
                IF c >= 1
                THEN [ab[c] EXCEPT ![img] = Array(CapKeep(ab[c][img].rows, ImageThresh(is)))]
                ELSE ab[c]]
        ELSE ab

(***************************************************************************)
(* The test sets of the model.                                             *)
(***************************************************************************)
\* anchor a of a layout with shift d: the box [0,0,10,10] moved by d*(a-1)
LayoutBox(d, a) == <<d * (a - 1), d * (a - 1), d * (a - 1) + 10, d * (a - 1) + 10>>
Shifts == {1, 20}
ScoreRows == [1..NumAnchors -> [1..(num_classes - 1) -> ScoreLevels]]
Images == {[boxes |-> [a \in 1..NumAnchors |-> LayoutBox(d, a)], scores |-> sc] :
              d \in Shifts, sc \in ScoreRows}

PatternImage(p, idx) ==
    [boxes  |-> [a \in 1..NumAnchors |-> LayoutBox(1, a)],
     scores |-> [a \in 1..NumAnchors |-> [c \in 1..(num_classes - 1) |->
                    (p + idx + a + c) % Cardinality(AllLevels)]]]

TestSets ==
    {[k \in 0..0 |-> im] : im \in Images}
    \cup {[k \in 0..(n - 1) |-> PatternImage(p, k)] : n \in 0..MaxImages, p \in AllLevels}

NmsThreshs == {<<1, 2>>, <<2, 5>>}

(***************************************************************************)
(* main.py lines 180-258: the evaluation loop.                             *)
(***************************************************************************)
EvalIdle ==
    /\ testset = <<>>
    /\ nms_thresh = <<1, 2>>
    /\ num_images = 0
    /\ all_boxes = <<>>
    /\ i = 0
    /\ j = 1
    /\ pc = "idle"
    /\ boxes = <<>>
    /\ scores = <<>>
    /\ image_scores = <<>>
    /\ image_thresh = -1
    /\ nms_calls = <<>>
    /\ processed = <<>>
    /\ evaluated = 0
    /\ error = ""

NmsIdle ==
    /\ cand = <<>>
    /\ iou_thresh = <<1, 2>>
    /\ nms_pc = "idle"
    /\ out1 = <<>>
    /\ out2 = <<>>

DetIdle ==
    /\ size = 0
    /\ arg_num_classes = 0
    /\ backbone = ""
    /\ neck = ""
    /\ det_pc = "idle"
    /\ fpn_level = 0
    /\ self_num_classes = 0
    /\ num_anchors = 0
    /\ channels = <<>>
    /\ fea_channel = 0
    /\ built = <<>>
    /\ loc = <<>>
    /\ conf = <<>>
    /\ det_error = ""
    /\ batch = 0
    /\ fea = <<>>
    /\ loc_shape = <<>>
    /\ conf_shape = <<>>

BbIdle ==
    /\ side = 0
    /\ bb_pc = "idle"
    /\ in_planes = 0
    /\ cur_layer_idx = 0
    /\ stages = <<>>
    /\ x = <<>>
    /\ bb_out1 = <<>>
    /\ bb_out2 = <<>>
    /\ bb_error = ""

TrainIdle ==
    /\ trained_model = FALSE
    /\ dataset_len = 0
    /\ batch_size = 1
    /\ warm_iter = 0
    /\ epoch_size = 0
    /\ max_iter = 0
    /\ run_pc = "idle"
    /\ iteration = 0
    /\ epoch = 0
    /\ batches_left = -1
    /\ drawn = 0
    /\ created_at = <<>>
    /\ log = <<>>
    /\ iterations_done = 0
    /\ train_error = ""

InitEval ==
    /\ testset \in TestSets
    /\ nms_thresh \in NmsThreshs
    /\ num_images = Cardinality(DOMAIN testset)
    /\ all_boxes = [c \in 0..(num_classes - 1) |->
                       [k \in 0..(Cardinality(DOMAIN testset) - 1) |-> EmptyList]]
    /\ i = 0
    /\ j = 1
    /\ pc = "for_i"
    /\ boxes = <<>>
    /\ scores = <<>>
    /\ image_scores = <<>>
    /\ image_thresh = -1
    /\ nms_calls = <<>>
    /\ processed = <<>>
    /\ evaluated = 0
    /\ error = ""
    /\ NmsIdle
    /\ DetIdle
    /\ BbIdle
    /\ TrainIdle

\* lines 192-206: for i in range(num_images): pull the image, run the detector
PullImage ==
    /\ pc = "for_i"
    /\ i < num_images
    /\ boxes' = testset[i].boxes
    /\ scores' = testset[i].scores
    /\ processed' = Append(processed, i)
    /\ j' = 1
    /\ pc' = "for_j"
    /\ UNCHANGED <<testset, nms_thresh, num_images, i, all_boxes, image_scores,
                   image_thresh, nms_calls, evaluated, error>>
    /\ UNCHANGED <<nmsVars, detVars, bbVars, trainVars>>

\* lines 209-219: one iteration of for j in range(1, num_classes)
ClassStep ==
    /\ pc = "for_j"
    /\ j < num_classes
    /\ LET inds == Inds(scores, j)
           c_dets == CDets(boxes, scores, j)
       IN  IF Len(inds) = 0
           THEN /\ all_boxes' = [all_boxes EXCEPT ![j][i] = Array(<<>>)]
                /\ UNCHANGED nms_calls
           ELSE /\ all_boxes' = [all_boxes EXCEPT ![j][i] =
                                    Array(Take(c_dets, nms(c_dets, nms_thresh)))]
                /\ nms_calls' = Append(nms_calls, <<j, i, c_dets>>)
    /\ j' = j + 1
    /\ UNCHANGED <<testset, nms_thresh, num_images, i, pc, boxes, scores, image_scores,
                   image_thresh, processed, evaluated, error>>
    /\ UNCHANGED <<nmsVars, detVars, bbVars, trainVars>>

\* lines 220-226: the cap on the detections of image i
CapStep ==
    /\ pc = "for_j"
    /\ j >= num_classes
    /\ IF max_per_image > 0
       THEN /\ image_scores' = ImageScores(all_boxes, i)
            /\ image_thresh' = IF Len(ImageScores(all_boxes, i)) > max_per_image
                               THEN ImageThresh(ImageScores(all_boxes, i))
                               ELSE image_thresh
            /\ all_boxes' = Capped(all_boxes, i)
       ELSE UNCHANGED <<image_scores, image_thresh, all_boxes>>
    /\ pc' = "report"
    /\ UNCHANGED <<testset, nms_thresh, num_images, i, j, boxes, scores, nms_calls,
                   processed, evaluated, error>>
    /\ UNCHANGED <<nmsVars, detVars, bbVars, trainVars>>

\* lines 253-257: if i % math.floor(num_images / 10) == 0 and i > 0: print(...)
ReportStep ==
    /\ pc = "report"
    /\ IF num_images \div 10 = 0
       THEN /\ error' = "ZeroDivisionError"
            /\ pc' = "raised"
            /\ UNCHANGED i
       ELSE /\ i' = i + 1
            /\ pc' = "for_i"
            /\ UNCHANGED error
    /\ UNCHANGED <<testset, nms_thresh, num_images, j, boxes, scores, all_boxes,
                   image_scores, image_thresh, nms_calls, processed, evaluated>>
    /\ UNCHANGED <<nmsVars, detVars, bbVars, trainVars>>

\* line 258: testset.evaluate_detections(all_boxes)
Evaluate ==
    /\ pc = "for_i"
    /\ i >= num_images
    /\ evaluated' = evaluated + 1
    /\ pc' = "done"
    /\ UNCHANGED <<testset, nms_thresh, num_images, i, j, boxes, scores, all_boxes,
                   image_scores, image_thresh, nms_calls, processed, error>>
    /\ UNCHANGED <<nmsVars, detVars, bbVars, trainVars>>

NextEval == PullImage \/ ClassStep \/ CapStep \/ ReportStep \/ Evaluate

SpecEval == InitEval /\ [][NextEval]_vars

(***************************************************************************)
(* nms applied twice: the candidates are drawn from a pool of boxes.       *)
(***************************************************************************)
BoxPool == {<<0, 0, 10, 10>>, <<1, 1, 11, 11>>, <<0, 2, 20, 8>>,
            <<5, 5, 15, 15>>, <<20, 20, 30, 30>>}
CandRows == {b \o <<s>> : b \in BoxPool, s \in ScoreLevels \ {thresh}}
CandLists == UNION {[1..n -> CandRows] : n \in 0..MaxCand}
IouThreshs == {<<0, 1>>, <<2, 5>>, <<1, 2>>, <<1, 1>>}

InitNms ==
    /\ cand \in CandLists
    /\ iou_thresh \in IouThreshs
    /\ nms_pc = "start"
    /\ out1 = <<>>
    /\ out2 = <<>>
    /\ EvalIdle
    /\ DetIdle
    /\ BbIdle
    /\ TrainIdle

\* keep = nms(c_dets, thresh); c_dets = c_dets[keep, :]
NmsOnce ==
    /\ nms_pc = "start"
    /\ out1' = Take(cand, nms(cand, iou_thresh))
    /\ nms_pc' = "once"
    /\ UNCHANGED <<cand, iou_thresh, out2>>
    /\ UNCHANGED <<evalVars, detVars, bbVars, trainVars>>

\* the same call, made on the rows the first call kept
NmsTwice ==
    /\ nms_pc = "once"
    /\ out2' = Take(out1, nms(out1, iou_thresh))
    /\ nms_pc' = "twice"
    /\ UNCHANGED <<cand, iou_thresh, out1>>
    /\ UNCHANGED <<evalVars, detVars, bbVars, trainVars>>

NextNms == NmsOnce \/ NmsTwice

SpecNms == InitNms /\ [][NextNms]_vars

(***************************************************************************)
(* models/detector.py: multibox, Detector.__init__, Detector.forward.      *)
(***************************************************************************)
MaxClasses == 3      \* the argument num_classes ranges over 0..MaxClasses
MaxBatch == 2        \* the batch size N of forward ranges over 1..MaxBatch

Sizes == {32, 64, 96, 100, 320, 448, 512, 576}
Backbones == {"vgg16", "repvgg", "resnet18", "shufflenet", "mobilenet"}
Necks == {"ssd", "fpn", "pafpn", "bifpn"}
FeaShapes == {<<1, 1>>, <<2, 1>>, <<2, 3>>}

\* a size check that accepts every multiple of 32
SizeSupported32(sz) == sz % 32 = 0

\* if not size % 64 == 0: raise ValueError
SizeSupported(sz) == sz % 64 = 0

\* a level choice that still gives 4 levels at size 512
FpnLevelInclusive(sz) == IF sz <= 512 THEN 4 ELSE 5

\* self.fpn_level = (4 if size < 512 else 5)
FpnLevel(sz) == IF sz < 512 THEN 4 ELSE 5

\* the branches of the backbone selection: channels and fea_channel
BackboneKnown(name) == name \in {"vgg16", "repvgg", "resnet18", "shufflenet"}

Channels(name) ==
    CASE name = "vgg16" -> <<512, 512>>
      [] name = "repvgg" -> <<384, 1408>>
      [] name = "resnet18" -> <<256, 512>>
      [] name = "shufflenet" -> <<232, 464>>

FeaChannel(name) == IF name = "shufflenet" THEN 128 ELSE 256

NeckKnown(name) == name \in {"ssd", "fpn", "pafpn"}

\* multibox: loc_channel = num_anchors * 4, cls_channel = num_anchors * num_classes
LocChannel(na) == na * 4
\* class channels that count the background class as well
ClsChannelWithBackground(na, nc) == na * (nc + 1)
ClsChannel(na, nc) == na * nc

\* nn.Conv2d refuses a negative number of output channels
Conv2dBuilds(cin, cout) == cin > 0 /\ cout >= 0

Conv2d(cin, cout) == [in |-> cin, out |-> cout]

\* the Conv2d layers multibox constructs before it returns or raises, in order
RECURSIVE MultiboxTrace(_, _, _, _)
MultiboxTrace(level, na, nc, fc) ==
    IF level = 0 THEN <<>>
    ELSE IF ~Conv2dBuilds(fc, LocChannel(na)) THEN <<>>
    ELSE IF ~Conv2dBuilds(fc, ClsChannel(na, nc)) THEN <<"loc">>
    ELSE LET rest == MultiboxTrace(level - 1, na, nc, fc)
         IN  <<"loc", "conf">> \o rest

MultiboxRaises(level, na, nc, fc) ==
    level > 0 /\ (~Conv2dBuilds(fc, LocChannel(na)) \/ ~Conv2dBuilds(fc, ClsChannel(na, nc)))

MultiboxLoc(level, na, nc, fc) == [k \in 1..level |-> Conv2d(fc, LocChannel(na))]
MultiboxConf(level, na, nc, fc) == [k \in 1..level |-> Conv2d(fc, ClsChannel(na, nc))]

\* l(x).permute(0, 2, 3, 1).contiguous().view(o.size(0), -1): elements per batch row
FlatLen(shape, layer) == shape[1] * shape[2] * layer.out

\* torch.cat(..., 1) over zip(fea, self.loc, self.conf): elements per batch row
RECURSIVE CatLen(_, _, _)
CatLen(f, layers, k) ==
    IF k > Min2(Len(f), Len(layers)) THEN 0
    ELSE FlatLen(f[k], layers[k]) + CatLen(f, layers, k + 1)

\* t.view(n, -1, last) of a tensor with numel elements: the shape, or <<>> when
\* view raises (a second negative size, any size fits -1, or no size fits it)
View3(numel, n, last) ==
    IF n <= 0 \/ last <= 0 THEN <<>>
    ELSE IF numel % (n * last) # 0 THEN <<>>
    ELSE <<n, numel \div (n * last), last>>

InitDet ==
    /\ size \in Sizes
    /\ arg_num_classes \in 0..MaxClasses
    /\ backbone \in Backbones
    /\ neck \in Necks
    /\ det_pc = "params"
    /\ fpn_level = 0
    /\ self_num_classes = 0
    /\ num_anchors = 0
    /\ channels = <<>>
    /\ fea_channel = 0
    /\ built = <<>>
    /\ loc = <<>>
    /\ conf = <<>>
    /\ det_error = ""
    /\ batch = 0
    /\ fea = <<>>
    /\ loc_shape = <<>>
    /\ conf_shape = <<>>
    /\ EvalIdle
    /\ NmsIdle
    /\ BbIdle
    /\ TrainIdle

\* detector.py lines 24-29
Params ==
    /\ det_pc = "params"
    /\ IF ~SizeSupported(size)
       THEN /\ det_error' = "ValueError: size is not supported"
            /\ det_pc' = "raised"
            /\ UNCHANGED <<fpn_level, self_num_classes, num_anchors>>
       ELSE /\ fpn_level' = FpnLevel(size)
            /\ self_num_classes' = arg_num_classes - 1
            /\ num_anchors' = 6
            /\ det_pc' = "backbone"
            /\ UNCHANGED det_error
    /\ UNCHANGED <<size, arg_num_classes, backbone, neck, channels, fea_channel, built,
                   loc, conf, batch, fea, loc_shape, conf_shape>>
    /\ UNCHANGED <<evalVars, nmsVars, bbVars, trainVars>>

\* detector.py lines 31-54
BuildBackbone ==
    /\ det_pc = "backbone"
    /\ IF BackboneKnown(backbone)
       THEN /\ built' = Append(built, "backbone")
            /\ channels' = Channels(backbone)
            /\ fea_channel' = FeaChannel(backbone)
            /\ det_pc' = "neck"
            /\ UNCHANGED det_error
       ELSE /\ det_error' = "ValueError: backbone is not supported"
            /\ det_pc' = "raised"
            /\ UNCHANGED <<built, channels, fea_channel>>
    /\ UNCHANGED <<size, arg_num_classes, backbone, neck, fpn_level, self_num_classes,
                   num_anchors, loc, conf, batch, fea, loc_shape, conf_shape>>
    /\ UNCHANGED <<evalVars, nmsVars, bbVars, trainVars>>

\* detector.py lines 56-67
BuildNeck ==
    /\ det_pc = "neck"
    /\ IF NeckKnown(neck)
       THEN /\ built' = Append(built, "neck")
            /\ det_pc' = "head"
            /\ UNCHANGED det_error
       ELSE /\ det_error' = "ValueError: neck is not supported"
            /\ det_pc' = "raised"
            /\ UNCHANGED built
    /\ UNCHANGED <<size, arg_num_classes, backbone, neck, fpn_level, self_num_classes,
                   num_anchors, channels, fea_channel, loc, conf, batch, fea,
                   loc_shape, conf_shape>>
    /\ UNCHANGED <<evalVars, nmsVars, bbVars, trainVars>>

\* detector.py lines 69-86, with multibox (lines 9-16)
BuildHead ==
    /\ det_pc = "head"
    /\ built' = built \o MultiboxTrace(fpn_level, num_anchors, self_num_classes, fea_channel)
    /\ IF MultiboxRaises(fpn_level, num_anchors, self_num_classes, fea_channel)
       THEN /\ det_error' = "RuntimeError: negative dimension"
            /\ det_pc' = "raised"
            /\ UNCHANGED <<loc, conf>>
       ELSE /\ loc' = MultiboxLoc(fpn_level, num_anchors, self_num_classes, fea_channel)
            /\ conf' = MultiboxConf(fpn_level, num_anchors, self_num_classes, fea_channel)
            /\ det_pc' = "built"
            /\ UNCHANGED det_error
    /\ UNCHANGED <<size, arg_num_classes, backbone, neck, fpn_level, self_num_classes,
                   num_anchors, channels, fea_channel, batch, fea, loc_shape, conf_shape>>
    /\ UNCHANGED <<evalVars, nmsVars, bbVars, trainVars>>

\* detector.py lines 88-101: forward on a batch of N images whose neck output is f
Forward ==
    /\ det_pc = "built"
    /\ \E n \in 1..MaxBatch : \E f \in [1..fpn_level -> FeaShapes] :
          LET l == View3(n * CatLen(f, loc, 1), n, 4)
              c == View3(n * CatLen(f, conf, 1), n, self_num_classes)
          IN  /\ batch' = n
              /\ fea' = f
              /\ IF l = <<>> \/ c = <<>>
                 THEN /\ det_error' = "RuntimeError: view"
                      /\ det_pc' = "forward_raised"
                      /\ UNCHANGED <<loc_shape, conf_shape>>
                 ELSE /\ loc_shape' = l
                      /\ conf_shape' = c
                      /\ det_pc' = "forwarded"
                      /\ UNCHANGED det_error
    /\ UNCHANGED <<size, arg_num_classes, backbone, neck, fpn_level, self_num_classes,
                   num_anchors, channels, fea_channel, built, loc, conf>>
    /\ UNCHANGED <<evalVars, nmsVars, bbVars, trainVars>>

NextDet == Params \/ BuildBackbone \/ BuildNeck \/ BuildHead \/ Forward

SpecDet == InitDet /\ [][NextDet]_vars

(***************************************************************************)
(* models/repvgg_backbone.py: RepVGGBlock, REPVGGBackbone.                 *)
(***************************************************************************)
MaxSideK == 40       \* the input side S ranges over 16 * (1..MaxSideK)

\* default arguments of REPVGGBackbone.__init__; 1.5 and 2.75 as <<num, den>>
num_blocks == <<2, 4, 14, 1>>
width_multiplier == <<<<3, 2>>, <<3, 2>>, <<3, 2>>, <<11, 4>>>>

\* int(base * w) for a positive multiplier w = num/den
IntTimes(base, w) == (base * w[1]) \div w[2]

\* planes argument of the _make_stage call of stage k, k in 1..4
StageBase == <<64, 128, 256, 512>>
Planes(k) == IntTimes(StageBase[k], width_multiplier[k])

RepVGGBlock(cin, cout, stride) == [in |-> cin, out |-> cout, stride |-> stride]

\* strides that repeat the stage's stride in every block
StridesAll(n, stride) == [b \in 1..n |-> stride]

\* strides = [stride] + [1]*(num_blocks-1)
Strides(n, stride) == [b \in 1..n |-> IF b = 1 THEN stride ELSE 1]

\* _make_stage: the blocks of one stage; the first takes self.in_planes in
MakeStage(inp, planes, n, stride) ==
    [b \in 1..n |-> RepVGGBlock(IF b = 1 THEN inp ELSE planes, planes, Strides(n, stride)[b])]

\* output length of nn.Conv2d along one axis: floor((n + 2p - k) / s) + 1
ConvOut(n, k, s, p) == ((n + 2 * p - k) \div s) + 1

\* RepVGGBlock.forward on a tensor <<C, H, W>>: the 3x3 branch (padding 1) and
\* the 1x1 branch (padding 0) are added, so both must give the same shape;
\* <<>> when the input channels are wrong or the shapes differ
BlockForward(t, blk) ==
    LET dense == <<blk.out, ConvOut(t[2], 3, blk.stride, 1), ConvOut(t[3], 3, blk.stride, 1)>>
        one == <<blk.out, ConvOut(t[2], 1, blk.stride, 0), ConvOut(t[3], 1, blk.stride, 0)>>
    IN  IF t = <<>> \/ t[1] # blk.in \/ dense # one THEN <<>> ELSE dense

\* nn.Sequential(*blocks) applied to t
RECURSIVE StageForward(_, _)
StageForward(t, blocks) ==
    IF blocks = <<>> THEN t
    ELSE StageForward(BlockForward(t, Head(blocks)), Tail(blocks))

InitBackbone ==
    /\ side \in {16 * k : k \in 1..MaxSideK}
    /\ bb_pc = "init"
    /\ in_planes = 0
    /\ cur_layer_idx = 0
    /\ stages = <<>>
    /\ x = <<>>
    /\ bb_out1 = <<>>
    /\ bb_out2 = <<>>
    /\ bb_error = ""
    /\ EvalIdle
    /\ NmsIdle
    /\ DetIdle
    /\ TrainIdle

\* repvgg_backbone.py lines 94-104: in_planes, stage0, cur_layer_idx
BuildStage0 ==
    /\ bb_pc = "init"
    /\ in_planes' = Min2(64, IntTimes(64, width_multiplier[1]))
    /\ stages' = <<<<RepVGGBlock(3, Min2(64, IntTimes(64, width_multiplier[1])), 1)>>>>
    /\ cur_layer_idx' = 1
    /\ bb_pc' = "stages"
    /\ UNCHANGED <<side, x, bb_out1, bb_out2, bb_error>>
    /\ UNCHANGED <<evalVars, nmsVars, detVars, trainVars>>

\* lines 105-108: self.stageK = self._make_stage(int(base * width), num_blocks[K-1], stride=2)
BuildStage ==
    /\ bb_pc = "stages"
    /\ Len(stages) <= 4
    /\ LET k == Len(stages)
       IN  /\ stages' = Append(stages, MakeStage(in_planes, Planes(k), num_blocks[k], 2))
           /\ in_planes' = IF num_blocks[k] > 0 THEN Planes(k) ELSE in_planes
           /\ cur_layer_idx' = cur_layer_idx + num_blocks[k]
           /\ bb_pc' = IF k = 4 THEN "built" ELSE "stages"
    /\ UNCHANGED <<side, x, bb_out1, bb_out2, bb_error>>
    /\ UNCHANGED <<evalVars, nmsVars, detVars, trainVars>>

\* forward is called on an image of side S
ForwardStart ==
    /\ bb_pc = "built"
    /\ x' = <<3, side, side>>
    /\ bb_pc' = "stage0"
    /\ UNCHANGED <<side, in_planes, cur_layer_idx, stages, bb_out1, bb_out2, bb_error>>
    /\ UNCHANGED <<evalVars, nmsVars, detVars, trainVars>>

\* lines 132-136: x = self.stageK(x), K = 0..4; out1 is stage3's, out2 stage4's
ForwardStage ==
    /\ bb_pc \in {"stage0", "stage1", "stage2", "stage3", "stage4"}
    /\ LET k == CASE bb_pc = "stage0" -> 0 [] bb_pc = "stage1" -> 1 [] bb_pc = "stage2" -> 2
                  [] bb_pc = "stage3" -> 3 [] bb_pc = "stage4" -> 4
           y == StageForward(x, stages[k + 1])
       IN  IF y = <<>>
           THEN /\ bb_error' = "RuntimeError: shape mismatch"
                /\ bb_pc' = "raised"
                /\ UNCHANGED <<x, bb_out1, bb_out2>>
           ELSE /\ x' = y
                /\ bb_out1' = IF k = 3 THEN y ELSE bb_out1
                /\ bb_out2' = IF k = 4 THEN y ELSE bb_out2
                /\ bb_pc' = <<"stage1", "stage2", "stage3", "stage4", "returned">>[k + 1]
                /\ UNCHANGED bb_error
    /\ UNCHANGED <<side, in_planes, cur_layer_idx, stages>>
    /\ UNCHANGED <<evalVars, nmsVars, detVars, trainVars>>

NextBackbone == BuildStage0 \/ BuildStage \/ ForwardStart \/ ForwardStage

SpecBackbone == InitBackbone /\ [][NextBackbone]_vars

(***************************************************************************)
(* main.py lines 116-184: load_dataset, network, optimizer and anchors,    *)
(* then either the loading of trained weights or the training loop and     *)
(* save_weights, then the start of the evaluation.                         *)
(***************************************************************************)
MaxData == 6         \* len(dataset) ranges over 0..MaxData
MaxBatchSize == 3    \* args.batch_size ranges over 1..MaxBatchSize
NumEpochs == 2       \* epochs of a run (250 for VOC, 140 for COCO in load_dataset)

WarmIters == {0, 1, 3}

\* epoch_size = len(dataset) // args.batch_size
EpochSize(n, b) == n \div b

\* max_iter = 250 * epoch_size
MaxIter(es) == NumEpochs * es

\* len(DataLoader(dataset, batch_size)): drop_last is False, the last batch may be short
LoaderLen(n, b) == (n + b - 1) \div b

\* a loop that ends one iteration early
LoopEndedEarly(it, mi) == it >= mi - 1

\* for iteration in range(max_iter): the loop has ended
LoopEnded(it, mi) == it >= mi

\* an epoch test whose period is one iteration too long
NewEpochLate(it, es) == it % (es + 1) = 0

\* if iteration % epoch_size == 0
NewEpoch(it, es) == it % es = 0

\* adjust_learning_rate divides by warm_iter while iteration <= warm_iter and
\* by max_iter - warm_iter afterwards
LrDivisor(it, wi, mi) == IF it <= wi THEN wi ELSE mi - wi

\* the steps of one training iteration (main.py lines 156-165), in order
IterOps == <<"lr", "next", "forward", "loss", "zero_grad", "backward", "step">>

InitTrain ==
    /\ trained_model \in BOOLEAN
    /\ dataset_len \in 0..MaxData
    /\ batch_size \in 1..MaxBatchSize
    /\ warm_iter \in WarmIters
    /\ epoch_size = 0
    /\ max_iter = 0
    /\ run_pc = "load_dataset"
    /\ iteration = 0
    /\ epoch = 0
    /\ batches_left = -1
    /\ drawn = 0
    /\ created_at = <<>>
    /\ log = <<>>
    /\ iterations_done = 0
    /\ train_error = ""
    /\ EvalIdle
    /\ NmsIdle
    /\ DetIdle
    /\ BbIdle

\* lines 118-119 with load_dataset (lines 79-100)
LoadDataset ==
    /\ run_pc = "load_dataset"
    /\ epoch_size' = EpochSize(dataset_len, batch_size)
    /\ max_iter' = MaxIter(EpochSize(dataset_len, batch_size))
    /\ run_pc' = "network"
    /\ UNCHANGED <<trained_model, dataset_len, batch_size, warm_iter, iteration, epoch,
                   batches_left, drawn, created_at, log, iterations_done, train_error>>
    /\ UNCHANGED <<evalVars, nmsVars, detVars, bbVars>>

\* lines 121-127: the Detector is constructed and moved to the device
LoadNetwork ==
    /\ run_pc = "network"
    /\ log' = Append(log, "network")
    /\ run_pc' = "prepare"
    /\ UNCHANGED <<trained_model, dataset_len, batch_size, warm_iter, epoch_size, max_iter,
                   iteration, epoch, batches_left, drawn, created_at, iterations_done,
                   train_error>>
    /\ UNCHANGED <<evalVars, nmsVars, detVars, bbVars>>

\* lines 129-137: optimizer, criterion, priors = priorbox.forward(), then the branch
Prepare ==
    /\ run_pc = "prepare"
    /\ log' = Append(log, "priors")
    /\ run_pc' = IF trained_model THEN "load_weights" ELSE "train"
    /\ UNCHANGED <<trained_model, dataset_len, batch_size, warm_iter, epoch_size, max_iter,
                   iteration, epoch, batches_left, drawn, created_at, iterations_done,
                   train_error>>
    /\ UNCHANGED <<evalVars, nmsVars, detVars, bbVars>>

\* lines 138-140: torch.load and model.load_state_dict
LoadWeights ==
    /\ run_pc = "load_weights"
    /\ log' = Append(log, "load")
    /\ run_pc' = "start_eval"
    /\ UNCHANGED <<trained_model, dataset_len, batch_size, warm_iter, epoch_size, max_iter,
                   iteration, epoch, batches_left, drawn, created_at, iterations_done,
                   train_error>>
    /\ UNCHANGED <<evalVars, nmsVars, detVars, bbVars>>

\* lines 142-145: epoch = 0, then the loop starts at iteration 0
StartTraining ==
    /\ run_pc = "train"
    /\ epoch' = 0
    /\ iteration' = 0
    /\ run_pc' = "for_iteration"
    /\ UNCHANGED <<trained_model, dataset_len, batch_size, warm_iter, epoch_size, max_iter,
                   batches_left, drawn, created_at, log, iterations_done, train_error>>
    /\ UNCHANGED <<evalVars, nmsVars, detVars, bbVars>>

\* lines 146-153: the loop goes on and a batch iterator is created if due
EpochCheck ==
    /\ run_pc = "for_iteration"
    /\ ~LoopEnded(iteration, max_iter)
    /\ IF epoch_size = 0
       THEN /\ train_error' = "ZeroDivisionError"
            /\ run_pc' = "raised"
            /\ UNCHANGED <<batches_left, drawn, created_at, epoch>>
       ELSE /\ IF NewEpoch(iteration, epoch_size)
               THEN /\ batches_left' = LoaderLen(dataset_len, batch_size)
                    /\ drawn' = 0
                    /\ created_at' = Append(created_at, iteration)
                    /\ epoch' = epoch + 1
               ELSE UNCHANGED <<batches_left, drawn, created_at, epoch>>
            /\ run_pc' = "lr"
            /\ UNCHANGED train_error
    /\ UNCHANGED <<trained_model, dataset_len, batch_size, warm_iter, epoch_size, max_iter,
                   iteration, log, iterations_done>>
    /\ UNCHANGED <<evalVars, nmsVars, detVars, bbVars>>

\* line 156 with adjust_learning_rate (lines 57-64)
AdjustLearningRate ==
    /\ run_pc = "lr"
    /\ IF LrDivisor(iteration, warm_iter, max_iter) = 0
       THEN /\ train_error' = "ZeroDivisionError"
            /\ run_pc' = "raised"
            /\ UNCHANGED log
       ELSE /\ log' = Append(log, "lr")
            /\ run_pc' = "next"
            /\ UNCHANGED train_error
    /\ UNCHANGED <<trained_model, dataset_len, batch_size, warm_iter, epoch_size, max_iter,
                   iteration, epoch, batches_left, drawn, created_at, iterations_done>>
    /\ UNCHANGED <<evalVars, nmsVars, detVars, bbVars>>

\* line 157: (images, targets) = next(batch_iterator)
NextBatch ==
    /\ run_pc = "next"
    /\ IF batches_left <= 0
       THEN /\ train_error' = IF batches_left < 0 THEN "NameError" ELSE "StopIteration"
            /\ run_pc' = "raised"
            /\ UNCHANGED <<batches_left, drawn, log>>
       ELSE /\ batches_left' = batches_left - 1
            /\ drawn' = drawn + 1
            /\ log' = Append(log, "next")
            /\ run_pc' = "step"
            /\ UNCHANGED train_error
    /\ UNCHANGED <<trained_model, dataset_len, batch_size, warm_iter, epoch_size, max_iter,
                   iteration, epoch, created_at, iterations_done>>
    /\ UNCHANGED <<evalVars, nmsVars, detVars, bbVars>>

\* lines 158-177: forward, loss, zero_grad, backward, optimizer step; next iteration
TrainStep ==
    /\ run_pc = "step"
    /\ log' = log \o <<"forward", "loss", "zero_grad", "backward", "step">>
    /\ iterations_done' = iterations_done + 1
    /\ iteration' = iteration + 1
    /\ run_pc' = "for_iteration"
    /\ UNCHANGED <<trained_model, dataset_len, batch_size, warm_iter, epoch_size, max_iter,
                   epoch, batches_left, drawn, created_at, train_error>>
    /\ UNCHANGED <<evalVars, nmsVars, detVars, bbVars>>

\* line 178: save_weights(model) after the loop
SaveWeights ==
    /\ run_pc = "for_iteration"
    /\ LoopEnded(iteration, max_iter)
    /\ log' = Append(log, "save")
    /\ run_pc' = "start_eval"
    /\ UNCHANGED <<trained_model, dataset_len, batch_size, warm_iter, epoch_size, max_iter,
                   iteration, epoch, batches_left, drawn, created_at, iterations_done,
                   train_error>>
    /\ UNCHANGED <<evalVars, nmsVars, detVars, bbVars>>

\* lines 180-184: print('Start Evaluation...'), model.eval()
StartEvaluation ==
    /\ run_pc = "start_eval"
    /\ log' = Append(log, "eval")
    /\ run_pc' = "eval"
    /\ UNCHANGED <<trained_model, dataset_len, batch_size, warm_iter, epoch_size, max_iter,
                   iteration, epoch, batches_left, drawn, created_at, iterations_done,
                   train_error>>
    /\ UNCHANGED <<evalVars, nmsVars, detVars, bbVars>>

NextTrain ==
    \/ LoadDataset \/ LoadNetwork \/ Prepare \/ LoadWeights \/ StartTraining
    \/ EpochCheck \/ AdjustLearningRate \/ NextBatch \/ TrainStep \/ SaveWeights
    \/ StartEvaluation

SpecTrain == InitTrain /\ [][NextTrain]_vars

(***************************************************************************)
(* Properties of the evaluation loop.                                      *)
(***************************************************************************)
\* the detections of image img left in all_boxes, over the non-background classes
Total(ab, img) == SumSeq([c \in 1..(num_classes - 1) |-> Len(ab[c][img].rows)])

\* t is the k-th highest of the scores is: fewer than k scores lie above t,
\* at least k lie at or above it
IsKthHighest(is, t, k) ==
    /\ \E n \in DOMAIN is : is[n] = t
    /\ Cardinality({n \in DOMAIN is : is[n] > t}) < k
    /\ Cardinality({n \in DOMAIN is : is[n] >= t}) >= k

\* C1: whenever the detections kept after per-class NMS number more than
\* max_per_image, exactly max_per_image are left after the cap step, and they
\* are the max_per_image highest-scoring ones, whatever the scores (ties included).
C1_TopKExact ==
    (pc \in {"report", "raised"} /\ Len(image_scores) > max_per_image) =>
        /\ Total(all_boxes, i) = max_per_image
        /\ SortAsc(ImageScores(all_boxes, i)) =
              SubSeq(SortAsc(image_scores),
                     Len(image_scores) - max_per_image + 1, Len(image_scores))

\* C2: the cap is global.  When the detections of image i number more than
\* max_per_image, one threshold, the max_per_image-th highest score over all
\* classes, decides every class: the rows below it go, the rows at or above it
\* stay in their order; otherwise the cap step changes no list.  No other
\* image's lists and no background entry change.
C2_GlobalCap ==
    [][(pc = "for_j" /\ j >= num_classes) =>
        LET is == ImageScores(all_boxes, i)
        IN  IF Len(is) > max_per_image
            THEN \E t \in AllLevels :
                    /\ IsKthHighest(is, t, max_per_image)
                    /\ \A c \in 1..(num_classes - 1) :
                          /\ all_boxes'[c][i].rows =
                                SelectSeq(all_boxes[c][i].rows, LAMBDA d : Score(d) >= t)
                          /\ \A k \in 0..(num_images - 1) :
                                k # i => all_boxes'[c][k] = all_boxes[c][k]
                    /\ all_boxes'[0] = all_boxes[0]
            ELSE all_boxes' = all_boxes]_vars

\* a cap step that dropped rows of image i and left more than one
C2_Witness ==
    /\ pc = "report"
    /\ Len(image_scores) > max_per_image
    /\ Total(all_boxes, i) < Len(image_scores)
    /\ Total(all_boxes, i) >= 2

\* the anchors of image img whose score for class c is above the threshold
Above(img, c) == {a \in 1..NumAnchors : testset[img].scores[a][c] > thresh}

\* C3: the score threshold is strict and per class.  Every row stored in
\* all_boxes[c][k], c >= 1, has score > thresh; every call of nms got exactly
\* the anchors of its class with score > thresh, and at least one; a class
\* without such an anchor gets an empty array and no call of nms; the
\* background entry all_boxes[0][k] is never assigned.
C3_StrictThreshold ==
    /\ \A k \in 0..(num_images - 1) : all_boxes[0][k] = EmptyList
    /\ \A c \in 1..(num_classes - 1) : \A k \in 0..(num_images - 1) :
          /\ \A r \in DOMAIN all_boxes[c][k].rows : Score(all_boxes[c][k].rows[r]) > thresh
          /\ all_boxes[c][k].ndarray =>
                LET calls == {n \in DOMAIN nms_calls :
                                 nms_calls[n][1] = c /\ nms_calls[n][2] = k}
                IN  IF Above(k, c) = {}
                    THEN calls = {} /\ all_boxes[c][k] = Array(<<>>)
                    ELSE Cardinality(calls) = 1
    /\ \A n \in DOMAIN nms_calls :
          LET c == nms_calls[n][1]
              k == nms_calls[n][2]
              d == nms_calls[n][3]
          IN  /\ c \in 1..(num_classes - 1)
              /\ Len(d) >= 1
              /\ Len(d) = Cardinality(Above(k, c))
              /\ \A r \in DOMAIN d :
                    /\ Score(d[r]) > thresh
                    /\ \E a \in Above(k, c) :
                          d[r] = testset[k].boxes[a] \o <<testset[k].scores[a][c]>>

\* an image done with a score equal to the threshold, one class that went
\* through nms and one that had no candidate
C3_Witness ==
    /\ pc = "report"
    /\ \E a \in 1..NumAnchors : \E c \in 1..(num_classes - 1) :
          testset[i].scores[a][c] = thresh
    /\ \E c \in 1..(num_classes - 1) : Above(i, c) = {} /\ all_boxes[c][i] = Array(<<>>)
    /\ nms_calls # <<>>

\* C10: for num_images >= 1 the loop handles the images 0..num_images-1 once
\* each, in order, without raising, and then calls evaluate_detections once.
C10_EvalCompletes ==
    num_images >= 1 =>
        /\ error = ""
        /\ pc # "raised"
        /\ evaluated <= 1
        /\ processed = [k \in 1..Len(processed) |-> k - 1]
        /\ pc = "done" => (evaluated = 1 /\ Len(processed) = num_images)

(***************************************************************************)
(* Properties of nms.                                                      *)
(***************************************************************************)
\* C4: nms is idempotent.  Run on the rows a first run kept, with the same
\* threshold, it keeps every row, in order: the second output is the first.
C4_NmsIdempotent ==
    nms_pc = "twice" =>
        /\ out2 = out1
        /\ nms(out1, iou_thresh) = [k \in 1..Len(out1) |-> k]

\* a first run that suppressed a candidate and kept more than one
C4_Witness ==
    /\ nms_pc = "twice"
    /\ Len(out1) >= 2
    /\ Len(out1) < Len(cand)

(***************************************************************************)
(* Properties of the Detector.                                             *)
(***************************************************************************)
SizeError == "ValueError: size is not supported"

\* C5: a size that is not a multiple of 64 makes the constructor raise the
\* ValueError of the size check before any backbone, neck or head layer is
\* constructed; a multiple of 64 never raises it.
C5_SizeRejected ==
    /\ size % 64 # 0 =>
          /\ det_pc \in {"params", "raised"}
          /\ built = <<>> /\ loc = <<>> /\ conf = <<>>
          /\ det_pc = "raised" => det_error = SizeError
    /\ (size % 64 = 0 /\ det_pc # "idle") => det_error # SizeError

\* a constructor that stopped at a size that is a multiple of 32 but not of 64
C5_Witness ==
    /\ det_pc = "raised"
    /\ det_error = SizeError
    /\ size % 32 = 0
    /\ size % 64 # 0

\* C6: num_classes = 0 is rejected with a configuration error (ValueError) at
\* construction, before any network layer is built.
C6_ZeroClassesRejected ==
    (det_pc # "idle" /\ arg_num_classes = 0) =>
        /\ built = <<>>
        /\ det_pc \notin {"built", "forwarded", "forward_raised"}
        /\ det_pc = "raised" =>
              det_error \in {SizeError, "ValueError: num_classes is not supported"}

\* C7: forward on a detector with at least one non-background class returns
\* loc of shape (N, A, 4) and conf of shape (N, A, num_classes - 1) with
\* A = 6 * sum over the levels of h * w; every loc layer has 6 * 4 output
\* channels and every conf layer 6 * (num_classes - 1).
C7_PredictionShapes ==
    (det_pc \in {"forwarded", "forward_raised"} /\ arg_num_classes >= 2) =>
        LET A == 6 * SumSeq([k \in 1..Len(fea) |-> fea[k][1] * fea[k][2]])
        IN  /\ det_pc = "forwarded"
            /\ Len(fea) = fpn_level
            /\ loc_shape = <<batch, A, 4>>
            /\ conf_shape = <<batch, A, arg_num_classes - 1>>
            /\ \A k \in DOMAIN loc : loc[k].out = 6 * 4
            /\ \A k \in DOMAIN conf : conf[k].out = 6 * (arg_num_classes - 1)

\* a forward pass of a batch of two over feature maps that are not all alike,
\* for more than one non-background class
C7_Witness ==
    /\ det_pc = "forwarded"
    /\ batch >= 2
    /\ arg_num_classes >= 3
    /\ \E k \in DOMAIN fea : fea[k] # fea[1]
    /\ loc_shape[2] = conf_shape[2]

\* C8: an accepted size gives 4 pyramid levels below 512 and 5 from 512 on,
\* and the head has one loc layer and one conf layer per level.
C8_PyramidLevels ==
    /\ fpn_level # 0 => fpn_level = (IF size < 512 THEN 4 ELSE 5)
    /\ det_pc \in {"backbone", "neck", "head", "built", "forwarded", "forward_raised"} =>
          fpn_level \in {4, 5}
    /\ det_pc \in {"built", "forwarded", "forward_raised"} =>
          Len(loc) = fpn_level /\ Len(conf) = fpn_level

\* a detector built for the size 512, the first with 5 levels
C8_Witness ==
    /\ det_pc = "built"
    /\ size = 512
    /\ Len(loc) = 5
    /\ Len(conf) = 5

(***************************************************************************)
(* Properties of the backbone.                                             *)
(***************************************************************************)
CeilDiv(a, b) == (a + b - 1) \div b

\* C9: with the default configuration, forward on an input of side S, S a
\* positive multiple of 64, returns (384, ceil(S/8), ceil(S/8)) and
\* (1408, ceil(S/16), ceil(S/16)); stage0 has stride 1, in stages 1-4 only the
\* first block has stride 2; the channels are those Detector declares for repvgg.
C9_BackboneGeometry ==
    /\ bb_pc \in {"built", "stage0", "stage1", "stage2", "stage3", "stage4", "returned"} =>
          /\ Len(stages) = 5
          /\ \A b \in DOMAIN stages[1] : stages[1][b].stride = 1
          /\ \A k \in 2..5 : \A b \in DOMAIN stages[k] :
                stages[k][b].stride = (IF b = 1 THEN 2 ELSE 1)
          /\ \A k \in 2..5 : Len(stages[k]) = num_blocks[k - 1]
    /\ (side > 0 /\ side % 64 = 0) =>
          /\ bb_pc # "raised"
          /\ bb_pc = "returned" =>
                /\ bb_out1 = <<384, CeilDiv(side, 8), CeilDiv(side, 8)>>
                /\ bb_out2 = <<1408, CeilDiv(side, 16), CeilDiv(side, 16)>>
                /\ <<bb_out1[1], bb_out2[1]>> = Channels("repvgg")

\* forward returned for the default size 320
C9_Witness ==
    /\ bb_pc = "returned"
    /\ side = 320
    /\ bb_out1 = <<384, 40, 40>>
    /\ bb_out2 = <<1408, 20, 20>>

(***************************************************************************)
(* Properties of the training run.                                         *)
(***************************************************************************)
InLoopBody == run_pc \in {"lr", "next", "step"}

\* C11: a batch iterator is created exactly at the iterations that are
\* multiples of epoch_size, iteration 0 included; no more than epoch_size
\* batches are drawn from one iterator and next() never meets a missing or an
\* exhausted iterator; inside the loop epoch = iteration // epoch_size + 1 and
\* max_iter is a multiple of epoch_size.  With epoch_size = 0 no iteration
\* runs, no iterator is created and nothing is divided by zero.
C11_BatchSupply ==
    /\ train_error \notin {"StopIteration", "NameError"}
    /\ drawn <= epoch_size
    /\ \A k \in DOMAIN created_at : created_at[k] = (k - 1) * epoch_size
    /\ InLoopBody =>
          /\ epoch_size > 0
          /\ max_iter % epoch_size = 0
          /\ batches_left >= 0
          /\ epoch = (iteration \div epoch_size) + 1
          /\ Len(created_at) = (iteration \div epoch_size) + 1
    /\ run_pc = "next" => batches_left >= 1
    /\ (run_pc \notin {"idle", "load_dataset"} /\ epoch_size = 0) =>
          /\ ~InLoopBody
          /\ iterations_done = 0
          /\ created_at = <<>>
          /\ train_error = ""

\* the last batch of a second iterator has been drawn, from a data set whose
\* length is not a multiple of the batch size
C11_Witness ==
    /\ run_pc = "step"
    /\ epoch_size >= 2
    /\ dataset_len % batch_size # 0
    /\ Len(created_at) >= 2
    /\ drawn = epoch_size

\* the positions of log that hold the event ev
At(ev) == {k \in DOMAIN log : log[k] = ev}

\* the steps of training iterations in log, in order
IterLog == SelectSeq(log, LAMBDA e : \E k \in DOMAIN IterOps : IterOps[k] = e)

====
